---- MODULE Spec2Model ----
(* Model of src/reset_db.py: the Edu-Resource database reset utility.       *)
(* One run of main(): optional confirmation prompt, then reset_database()   *)
(* (connect, database handle, ping, list, drop loop, except, finally),      *)
(* then sys.exit.  The MongoDB server is the set db of collection names of  *)
(* the target database; every driver call may raise.                       *)
EXTENDS Integers, Sequences, FiniteSets, TLC

\* ---------------------------------------------------------------- bounds
MaxColls == 3
MaxRespLen == 4
MaxWrites == 2

\* ------------------------------------------------------------- universe
Names == <<"users", "logs", "courses", "sessions", "assignments">>
Colls == {Names[i] : i \in 1..MaxColls}

Alphabet == {" ", "Y", "E", "S", "y", "e", "s"}
Whitespace == {" "}
Responses == UNION {[1..n -> Alphabet] : n \in 0..MaxRespLen}

Flags == {"--force", "-f"}

\* MONGODB_URI as a sequence of tokens; "/" and "?" are the separators the
\* code splits on, every other token is an opaque run of other characters.
DefaultURI == <<"mongodb:", "/", "/", "localhost:27017", "/", "edu-resource">>
URIs == {DefaultURI,
         DefaultURI \o <<"?", "retryWrites=true">>,
         <<"mongodb:", "/", "/", "localhost:27017", "/">>}

\* The static warning list printed by confirm_reset.
StaticList == <<"users", "courses", "assignments", "submissions",
                "enrollments", "messages", "notifications">>

YES == <<"Y", "E", "S">>

\* ------------------------------------------------------- pure functions
Range(s) == {s[i] : i \in DOMAIN s}

Perms(S) == {f \in [1..Cardinality(S) -> S] : Range(f) = S}

RECURSIVE LStrip(_)
LStrip(s) == IF s # <<>> /\ Head(s) \in Whitespace THEN LStrip(Tail(s)) ELSE s

RECURSIVE RStrip(_)
RStrip(s) == IF s # <<>> /\ s[Len(s)] \in Whitespace
             THEN RStrip(SubSeq(s, 1, Len(s) - 1)) ELSE s

Strip(s) == RStrip(LStrip(s))

UpperChar(c) == CASE c = "y" -> "Y" [] c = "e" -> "E" [] c = "s" -> "S"
                  [] OTHER -> c
Upper(s) == [i \in 1..Len(s) |-> UpperChar(s[i])]

confirm_reset_upper(resp) == Upper(Strip(resp)) = YES
confirm_reset(resp) == Strip(resp) = YES

\* s.split(sep)[-1]: what follows the last separator
RECURSIVE SplitLast(_, _)
SplitLast(s, sep) ==
    IF s = <<>> THEN <<>>
    ELSE IF s[Len(s)] = sep THEN <<>>
    ELSE Append(SplitLast(SubSeq(s, 1, Len(s) - 1), sep), s[Len(s)])

\* s.split(sep)[0]: what precedes the first separator
RECURSIVE SplitFirst(_, _)
SplitFirst(s, sep) ==
    IF s = <<>> THEN <<>>
    ELSE IF Head(s) = sep THEN <<>>
    ELSE <<Head(s)>> \o SplitFirst(Tail(s), sep)

DbName(u) == SplitFirst(SplitLast(u, "/"), "?")

\* client[db_name] raises InvalidName for the empty name
ValidDbName(n) == n # <<>>

ExitCodeZero(s) == 0
ExitCode(s) == IF s = "true" THEN 0 ELSE 1

NoCollectionsNever(cs) == FALSE
NoCollections(cs) == cs = <<>>

InStatic(c) == c \in Range(StaticList)
NotListed(cs) == SelectSeq(StaticList, LAMBDA c : c \notin Range(cs))
LoopTargetsPlusStatic(cs) == cs \o NotListed(cs)
LoopTargetsOnlyStatic(cs) == SelectSeq(cs, InStatic)
LoopTargets(cs) == cs

\* ---------------------------------------------------------------- state
VARIABLES argv, uri, pc, answered, response, prompted, client, db_name,
          collections, idx, success, exitCode, db, db0, ops, out, writes

vars == <<argv, uri, pc, answered, response, prompted, client, db_name,
          collections, idx, success, exitCode, db, db0, ops, out, writes>>

ForceOnlyLong == "--force" \in argv
Force == "--force" \in argv \/ "-f" \in argv

ClientAlways == TRUE
ClientInLocals == client # "unbound"

Line(k, a) == [kind |-> k, arg |-> a]
Op(o, a, r) == [op |-> o, arg |-> a, ok |-> r]

NameLines(cs) == [i \in 1..Len(cs) |-> Line("name", cs[i])]

Init ==
    /\ argv \in SUBSET Flags
    /\ uri \in URIs
    /\ db \in SUBSET Colls
    /\ db0 = db
    /\ pc = "main"
    /\ answered = FALSE
    /\ response = <<>>
    /\ prompted = 0
    /\ client = "unbound"
    /\ db_name = <<>>
    /\ collections = <<>>
    /\ idx = 0
    /\ success = "none"
    /\ exitCode = -1
    /\ ops = <<>>
    /\ out = <<>>
    /\ writes = 0

\* -------------------------------------------------------------- actions
\* main(): title banner, force flag; without it confirm_reset() prints the
\* warning and blocks on input().
Main ==
    /\ pc = "main"
    /\ IF Force
       THEN /\ out' = Append(out, Line("title", ""))
            /\ pc' = "connect"
            /\ UNCHANGED prompted
       ELSE /\ out' = out \o <<Line("title", ""), Line("warning", "")>>
            /\ pc' = "prompt"
            /\ prompted' = prompted + 1
    /\ UNCHANGED <<argv, uri, answered, response, client, db_name,
                   collections, idx, success, exitCode, db, db0, ops, writes>>

\* input() returns; confirm_reset() returns; main() cancels or goes on.
Answer ==
    /\ pc = "prompt"
    /\ \E r \in Responses :
         /\ response' = r
         /\ answered' = TRUE
         /\ IF confirm_reset(r)
            THEN /\ pc' = "connect"
                 /\ UNCHANGED <<out, exitCode>>
            ELSE /\ out' = Append(out, Line("cancelled", ""))
                 /\ exitCode' = 0
                 /\ pc' = "done"
    /\ UNCHANGED <<argv, uri, prompted, client, db_name, collections, idx,
                   success, db, db0, ops, writes>>

\* client = MongoClient(MONGODB_URI)
Connect ==
    /\ pc = "connect"
    /\ out' = Append(out, Line("connecting", ""))
    /\ \/ /\ ops' = Append(ops, Op("connect", "", TRUE))
          /\ client' = "open"
          /\ pc' = "getdb"
       \/ /\ ops' = Append(ops, Op("connect", "", FALSE))
          /\ client' = client
          /\ pc' = "except"
    /\ UNCHANGED <<argv, uri, answered, response, prompted, db_name,
                   collections, idx, success, exitCode, db, db0, writes>>

\* db_name = ...; db = client[db_name]
GetDb ==
    /\ pc = "getdb"
    /\ db_name' = DbName(uri)
    /\ pc' = IF ValidDbName(DbName(uri)) THEN "ping" ELSE "except"
    /\ UNCHANGED <<argv, uri, answered, response, prompted, client,
                   collections, idx, success, exitCode, db, db0, ops, out,
                   writes>>

PingIgnoreFailure ==
    /\ pc = "ping"
    /\ \/ /\ ops' = Append(ops, Op("ping", "", TRUE))
          /\ out' = Append(out, Line("connected", ""))
          /\ pc' = "list"
       \/ /\ ops' = Append(ops, Op("ping", "", FALSE))
          /\ out' = out
          /\ pc' = "list"
    /\ UNCHANGED <<argv, uri, answered, response, prompted, client, db_name,
                   collections, idx, success, exitCode, db, db0, writes>>

\* client.admin.command('ping')
Ping ==
    /\ pc = "ping"
    /\ \/ /\ ops' = Append(ops, Op("ping", "", TRUE))
          /\ out' = Append(out, Line("connected", ""))
          /\ pc' = "list"
       \/ /\ ops' = Append(ops, Op("ping", "", FALSE))
          /\ out' = out
          /\ pc' = "except"
    /\ UNCHANGED <<argv, uri, answered, response, prompted, client, db_name,
                   collections, idx, success, exitCode, db, db0, writes>>

\* collections = db.list_collection_names(); the empty check; the listing
ListCollections ==
    /\ pc = "list"
    /\ \/ \E cs \in Perms(db) :
            /\ ops' = Append(ops, Op("list", "", TRUE))
            /\ collections' = cs
            /\ IF NoCollections(cs)
               THEN /\ out' = Append(out, Line("empty", ""))
                    /\ success' = "true"
                    /\ pc' = "finally"
                    /\ idx' = idx
               ELSE /\ out' = (Append(out, Line("found", "")) \o NameLines(cs))
                                 \o <<Line("dropping", "")>>
                    /\ success' = success
                    /\ pc' = "drop"
                    /\ idx' = 1
       \/ /\ ops' = Append(ops, Op("list", "", FALSE))
          /\ pc' = "except"
          /\ UNCHANGED <<collections, out, success, idx>>
    /\ UNCHANGED <<argv, uri, answered, response, prompted, client, db_name,
                   exitCode, db, db0, writes>>

DropSkipNext ==
    /\ pc = "drop"
    /\ idx <= Len(LoopTargets(collections))
    /\ LET name == LoopTargets(collections)[idx] IN
       \/ /\ ops' = Append(ops, Op("drop", name, TRUE))
          /\ db' = db \ {name}
          /\ out' = Append(out, Line("dropped", name))
          /\ idx' = idx + 2
          /\ pc' = pc
       \/ /\ ops' = Append(ops, Op("drop", name, FALSE))
          /\ db' \in {db, db \ {name}}
          /\ out' = out
          /\ idx' = idx
          /\ pc' = "except"
    /\ UNCHANGED <<argv, uri, answered, response, prompted, client, db_name,
                   collections, success, exitCode, db0, writes>>

DropSwallowError ==
    /\ pc = "drop"
    /\ idx <= Len(LoopTargets(collections))
    /\ LET name == LoopTargets(collections)[idx] IN
       \/ /\ ops' = Append(ops, Op("drop", name, TRUE))
          /\ db' = db \ {name}
          /\ out' = Append(out, Line("dropped", name))
          /\ idx' = idx + 1
          /\ pc' = pc
       \/ /\ ops' = Append(ops, Op("drop", name, FALSE))
          /\ db' \in {db, db \ {name}}
          /\ out' = out
          /\ idx' = idx + 1
          /\ pc' = pc
    /\ UNCHANGED <<argv, uri, answered, response, prompted, client, db_name,
                   collections, success, exitCode, db0, writes>>

\* one iteration of the loop: db[collection_name].drop(); acknowledgment.
\* A drop that raises may or may not have taken effect on the server.
Drop ==
    /\ pc = "drop"
    /\ idx <= Len(LoopTargets(collections))
    /\ LET name == LoopTargets(collections)[idx] IN
       \/ /\ ops' = Append(ops, Op("drop", name, TRUE))
          /\ db' = db \ {name}
          /\ out' = Append(out, Line("dropped", name))
          /\ idx' = idx + 1
          /\ pc' = pc
       \/ /\ ops' = Append(ops, Op("drop", name, FALSE))
          /\ db' \in {db, db \ {name}}
          /\ out' = out
          /\ idx' = idx
          /\ pc' = "except"
    /\ UNCHANGED <<argv, uri, answered, response, prompted, client, db_name,
                   collections, success, exitCode, db0, writes>>

\* the loop is exhausted: success banner, return True
Complete ==
    /\ pc = "drop"
    /\ idx > Len(LoopTargets(collections))
    /\ out' = Append(out, Line("complete", ""))
    /\ success' = "true"
    /\ pc' = "finally"
    /\ UNCHANGED <<argv, uri, answered, response, prompted, client, db_name,
                   collections, idx, exitCode, db, db0, ops, writes>>

\* except Exception as e: print, return False
Except ==
    /\ pc = "except"
    /\ out' = Append(out, Line("error", ""))
    /\ success' = "false"
    /\ pc' = "finally"
    /\ UNCHANGED <<argv, uri, answered, response, prompted, client, db_name,
                   collections, idx, exitCode, db, db0, ops, writes>>

\* finally: if 'client' in locals(): client.close(); print
Finally ==
    /\ pc = "finally"
    /\ IF ClientInLocals
       THEN /\ ops' = Append(ops, Op("close", "", TRUE))
            /\ client' = "closed"
            /\ out' = Append(out, Line("closed", ""))
       ELSE UNCHANGED <<ops, client, out>>
    /\ pc' = "exit"
    /\ UNCHANGED <<argv, uri, answered, response, prompted, db_name,
                   collections, idx, success, exitCode, db, db0, writes>>

\* sys.exit(0 if success else 1)
Exit ==
    /\ pc = "exit"
    /\ exitCode' = ExitCode(success)
    /\ pc' = "done"
    /\ UNCHANGED <<argv, uri, answered, response, prompted, client, db_name,
                   collections, idx, success, db, db0, ops, out, writes>>

\* Another client of the server creates a collection while the tool holds
\* its connection (the tool takes no lock).
Writer ==
    /\ client = "open"
    /\ writes < MaxWrites
    /\ \E c \in Colls \ db : db' = db \cup {c}
    /\ writes' = writes + 1
    /\ UNCHANGED <<argv, uri, pc, answered, response, prompted, client,
                   db_name, collections, idx, success, exitCode, db0, ops,
                   out>>

Next ==
    \/ Main
    \/ Answer
    \/ Connect
    \/ GetDb
    \/ Ping
    \/ ListCollections
    \/ Drop
    \/ Complete
    \/ Except
    \/ Finally
    \/ Exit

\* exclusive access: the tool is the only client of the database
Spec == Init /\ [][Next]_vars

NextShared == Next \/ Writer

\* the database is shared with a concurrent writer
SpecShared == Init /\ [][NextShared]_vars

\* ------------------------------------------------------------ properties
Count(o) == Cardinality({i \in DOMAIN ops : ops[i].op = o})
Failed(o) == \E i \in DOMAIN ops : ops[i].op = o /\ ~ops[i].ok
Succeeded(o) == \E i \in DOMAIN ops : ops[i].op = o /\ ops[i].ok
HasLine(k) == \E i \in DOMAIN out : out[i].kind = k
IsDrop(r) == r.op = "drop"
IsAck(l) == l.kind = "dropped"
DropOps == SelectSeq(ops, IsDrop)
DropTargets == [i \in 1..Len(DropOps) |-> DropOps[i].arg]
Acks == [i \in 1..Len(SelectSeq(out, IsAck)) |-> SelectSeq(out, IsAck)[i].arg]
ForceFlagGiven == argv \cap {"--force", "-f"} # {}
Cancelled == ~ForceFlagGiven /\ answered /\ Strip(response) # YES

\* C1 (as amended): without the force flag, every input whose
\* whitespace-stripped form differs from YES (lowercase yes included)
\* cancels the run: no driver operation is issued, the collection set is
\* unchanged and the process has exited with code 0.
C1_CancelLeavesDatabase ==
    (~ForceFlagGiven /\ answered /\ Strip(response) # YES)
        => (ops = <<>> /\ db = db0 /\ pc = "done" /\ exitCode = 0)

C1_Witness ==
    /\ ~ForceFlagGiven /\ answered /\ response = <<"y", "e", "s">>
    /\ pc = "done" /\ exitCode = 0 /\ db # {}

\* C1 (as stated): every input other than the exact string YES cancels.
C1_Original ==
    (~ForceFlagGiven /\ answered /\ response # YES)
        => (ops = <<>> /\ db = db0 /\ pc = "done" /\ exitCode = 0)

C3_OneDropPerListedName ==
    (pc = "done" /\ success = "true" /\ Len(collections) >= 1)
        => /\ Len(DropOps) = Len(collections)
           /\ DropTargets = collections
           /\ \A i, j \in 1..Len(DropTargets) :
                  DropTargets[i] = DropTargets[j] => i = j
           /\ \A i \in 1..Len(DropOps) : DropOps[i].ok
           /\ Acks = collections

C3_Witness ==
    /\ pc = "done" /\ success = "true" /\ Len(collections) = MaxColls
    /\ Len(DropOps) = MaxColls

\* C4: the exit code is 0 exactly when reset_database returned True or the
\* operator cancelled, 1 exactly when it returned False, which is exactly
\* when an error was raised and reported; there is no other exit code.
C4_ExitCode ==
    /\ pc = "done" =>
         /\ exitCode \in {0, 1}
         /\ exitCode = 0 <=> (success = "true" \/ Cancelled)
         /\ exitCode = 1 <=> success = "false"
    /\ pc \in {"finally", "exit", "done"} /\ ~Cancelled =>
         (success = "false" <=>
            (Failed("connect") \/ Failed("ping") \/ Failed("list")
               \/ Failed("drop")
               \/ (Succeeded("connect") /\ ~ValidDbName(DbName(uri)))))

C4_Witness ==
    /\ pc = "done" /\ exitCode = 1 /\ Failed("list")

\* C5: after a failed ping no listing and no drop is ever issued, the
\* database is unchanged, and the run ends with an error diagnostic, a
\* closed connection and exit code 1.
C5_PingFailsFast ==
    Failed("ping") =>
        /\ Count("list") = 0 /\ Count("drop") = 0 /\ db = db0
        /\ pc \in {"except", "finally", "exit", "done"}
        /\ pc = "done" =>
             (HasLine("error") /\ Count("close") = 1 /\ exitCode = 1)

C5_Witness ==
    /\ Failed("ping") /\ pc = "done" /\ db # {}

\* C6: with --force or -f the prompt is never presented, no answer is ever
\* read, and the first step of main() enters the reset routine.
C6_ForceSkipsPrompt ==
    [][ForceFlagGiven =>
          /\ prompted' = 0 /\ ~answered' /\ ~HasLine("warning")'
          /\ pc' # "prompt"
          /\ pc = "main" => pc' = "connect"]_vars

C6_Witness ==
    /\ argv = {"-f"} /\ pc = "done" /\ success = "true" /\ prompted = 0

\* C7: an empty listing issues no drop, reports that there is nothing to
\* drop, makes reset_database return True and the process exit with 0.
C7_EmptyListing ==
    (Succeeded("list") /\ collections = <<>>) =>
        /\ Count("drop") = 0
        /\ HasLine("empty") /\ ~HasLine("complete") /\ ~HasLine("error")
        /\ success = "true"
        /\ pc \in {"finally", "exit", "done"}
        /\ pc = "done" => exitCode = 0

C7_Witness ==
    /\ Succeeded("list") /\ collections = <<>> /\ pc = "done"

\* C8: when the drop of the k-th listed collection raises, the k-1 earlier
\* collections stay dropped, the failed drop is the last drop issued (no
\* retry, no later drop, later collections still present), no success banner
\* is printed, and the run ends with an error diagnostic, a close and exit
\* code 1.
C8_DropFailureStops ==
    Failed("drop") =>
        LET k == Len(DropOps) IN
        /\ k <= Len(collections)
        /\ DropTargets = SubSeq(collections, 1, k)
        /\ \A i \in 1..k : DropOps[i].ok <=> i < k
        /\ \A i \in 1..Len(collections) :
              /\ i < k => collections[i] \notin db
              /\ i > k => collections[i] \in db
        /\ ~HasLine("complete")
        /\ success # "true"
        /\ pc \in {"except", "finally", "exit", "done"}
        /\ pc = "done" =>
             (HasLine("error") /\ Count("close") = 1 /\ exitCode = 1)

C8_Witness ==
    /\ Failed("drop") /\ pc = "done" /\ Len(DropOps) = 2
    /\ Len(collections) = 3

\* C9: every drop issued targets a name returned by the single listing
\* call, every collection a step removes from the database is a listed one
\* (a collection created after the listing is never dropped), and on
\* success every listed name was dropped whether or not the static warning
\* list names it.
C9_ScopeIsTheListing ==
    [][/\ \A c \in db \ db' : c \in Range(collections')
       /\ \A i \in DOMAIN ops' :
             ops'[i].op = "drop" => ops'[i].arg \in Range(collections')
       /\ Count("list")' <= 1
       /\ success' = "true" => Range(collections') \subseteq Range(DropTargets')
      ]_vars

C9_Witness ==
    /\ pc = "done" /\ success = "true" /\ writes > 0
    /\ "logs" \in Range(collections)
    /\ db # {} /\ db \cap Range(collections) = {}

\* C10: with exclusive access, once reset_database has returned True the
\* target database has no collection: everything that existed at listing
\* time is gone.
C10_SuccessMeansEmpty ==
    success = "true" =>
        /\ db = {}
        /\ Range(collections) = db0

C10_Witness ==
    /\ pc = "done" /\ success = "true" /\ db0 = Colls /\ db = {}

====
